---- MODULE Spec2Model ----
(***************************************************************************)
(* State-machine model of the dispatch scheduler of src/app.py:            *)
(* SafeSender (queue building, the per-recipient loop, checkpoint and      *)
(* sent-log persistence), the window gate and the retry decorator.         *)
(*                                                                         *)
(* Phone numbers and HH:MM strings are tuples of one-character strings.    *)
(* Queue indices are 0-based as in the code (iterrows after reset_index);  *)
(* TLA+ sequences are 1-based, so row idx of df is df[idx + 1].            *)
(***************************************************************************)
EXTENDS Integers, Sequences, FiniteSets, TLC

\* ------------------------------------------------------------ bounds
MaxContacts == 3      \* rows of the contacts file
MaxRuns == 2          \* process lifetimes (runs of main) in one behaviour
MaxHourCap == 2       \* largest configured max_messages_per_hour
MaxDayCap == 2        \* largest configured max_messages_per_day
MaxLogRows == 2       \* rows of the sent-log file the queue is built against
MaxWindows == 2       \* configured send windows the gate is applied to
MaxFail == 7          \* calls of a wrapped function that raise before one returns
MaxAttempts == 7      \* largest attempts argument of retry_with_backoff
MaxBlockSize == 2     \* largest block_size the pause cadence is stated for

\* ------------------------------------------------- program constants
MinDigits == 10       \* normalize_phone: len(s) < 10 -> None
SendAttempts == 3     \* @retry_with_backoff(attempts=3, ...) on safe_send_once
NoCheckpoint == -1    \* self.checkpoint.get("last_index", -1)

\* ----------------------------------------------------------- helpers
Range(s) == {s[i] : i \in 1..Len(s)}

Contains(s, x) == \E i \in 1..Len(s) : s[i] = x

Occurrences(s, x) == Cardinality({i \in 1..Len(s) : s[i] = x})

SeqsUpTo(S, n) == UNION {[1..k -> S] : k \in 0..n}

\* pandas DataFrame.drop_duplicates(subset=['CONTATO']): the first row of each
\* CONTATO value is kept, in order.
RECURSIVE drop_duplicates(_)
drop_duplicates(s) ==
    IF s = << >> THEN << >>
    ELSE LET front == drop_duplicates(SubSeq(s, 1, Len(s) - 1))
             last == s[Len(s)]
         IN  IF Contains(front, last) THEN front ELSE Append(front, last)

\* df.sample(frac=1): every reordering of the rows.
Shuffles(s) ==
    {[i \in 1..Len(s) |-> s[p[i]]] : p \in Permutations(1..Len(s))}

\* ------------------------------------------------- contact records
Digits == {"0", "1", "2", "3", "4", "5", "6", "7", "8", "9"}

NaN == << >>          \* an empty cell: read_excel yields NaN for it

RawA1 == <<"1","1","9","8","7","6","5","4","3","2","1">>
RawA2 == <<"(","1","1",")"," ","9","8","7","6","5","-","4","3","2","1">>
RawB == <<"2","1","9","8","7","6","5","4","3","2">>
RawShort == <<"9","8","7","6","5","-","4","3","2","1">>

RawPool == {RawA1, RawA2, RawB, RawShort, NaN}

\* The rows the dispatch runs draw their contacts file from.
ContactPool == {RawA1, RawA2, RawB, RawShort}

isna(raw) == raw = NaN

\* Mutant of normalize_phone: the length test is off by one and lets a 9-digit
\* number through.
normalize_phone_short(raw) ==
    IF isna(raw) THEN NaN
    ELSE LET s == SelectSeq(raw, LAMBDA ch : ch \in Digits)
         IN  IF Len(s) < MinDigits - 1 THEN NaN ELSE s

\* normalize_phone: digits only, None when missing or shorter than 10 digits.
\* None is modelled as NaN (the value dropna removes).
normalize_phone(raw) ==
    IF isna(raw) THEN NaN
    ELSE LET s == SelectSeq(raw, LAMBDA ch : ch \in Digits)
         IN  IF Len(s) < MinDigits THEN NaN ELSE s

\* df.dropna(subset=['CONTATO'])
dropna(rows) == SelectSeq(rows, LAMBDA r : ~isna(r))

\* ------------------------------------------------------- window gate
\* A time of day is <<hour, minute, second>>; datetime.time compares
\* lexicographically.
TimeLE(a, b) ==
    \/ a[1] < b[1]
    \/ a[1] = b[1] /\ a[2] < b[2]
    \/ a[1] = b[1] /\ a[2] = b[2] /\ a[3] <= b[3]

DigitVal(ch) == CHOOSE d \in 0..9 : ch = ToString(d)

\* datetime.strptime(s, "%H:%M").time() of a zero-padded "HH:MM".
strptime(s) ==
    <<DigitVal(s[1]) * 10 + DigitVal(s[2]), DigitVal(s[4]) * 10 + DigitVal(s[5]), 0>>

\* within_send_windows(cfg, now): some window has start <= current <= end.
within_send_windows(c, t) ==
    \E i \in 1..Len(c.send_windows) :
        LET start == strptime(c.send_windows[i][1])
            end == strptime(c.send_windows[i][2])
        IN  TimeLE(start, t) /\ TimeLE(t, end)

T0600 == <<"0","6",":","0","0">>
T0900 == <<"0","9",":","0","0">>
T1200 == <<"1","2",":","0","0">>
T1400 == <<"1","4",":","0","0">>
T1800 == <<"1","8",":","0","0">>
T2200 == <<"2","2",":","0","0">>

\* DEFAULT_CONFIG["send_windows"], and a window that wraps past midnight.
DefaultWindows == << <<T0900, T1200>>, <<T1400, T1800>> >>
WrapWindows == << <<T2200, T0600>> >>

\* ---------------------------------------------------- retry decorator
None == 0

Return(v) == [kind |-> "return", val |-> v]
Raise(e) == [kind |-> "raise", val |-> e]

\* wrapper(*args) of retry_with_backoff: func[k] is what the k-th call of the
\* wrapped function does; the result records how the wrapper ended and how many
\* times it called the function.
RECURSIVE wrapper(_, _, _, _)
wrapper(func, attempts, attempt, last_exc) ==
    IF attempt > attempts
    THEN [kind |-> "raise", val |-> last_exc, calls |-> attempt - 1]
    ELSE IF func[attempt].kind = "return"
         THEN [kind |-> "return", val |-> func[attempt].val, calls |-> attempt]
         ELSE wrapper(func, attempts, attempt + 1, func[attempt].val)

\* Mutant of retry_with_backoff: the loop stops one attempt early
\* (range(1, attempts) for range(1, attempts + 1)).
retry_with_backoff_short(attempts, func) == wrapper(func, attempts - 1, 1, None)

retry_with_backoff(attempts, func) == wrapper(func, attempts, 1, None)

\* send_whatsapp_message: True when the browser steps went through; every
\* exception of the browser steps is caught and turned into False.
send_whatsapp_message(driver_ok) == Return(driver_ok)

\* safe_send_once: send_whatsapp_message under retry_with_backoff(attempts=3);
\* driver[k] tells whether the browser steps of the k-th call go through.
safe_send_once(driver) ==
    retry_with_backoff(SendAttempts,
                       [k \in 1..SendAttempts |-> send_whatsapp_message(driver[k])])

\* ------------------------------------------------------------- state
VARIABLES
    contacts,       \* the contacts file: the CONTATO cell of each row
    sent_log,       \* the sent-log file: [exists, rows (CONTATO of each row)]
    ckpt_file,      \* the checkpoint file: [exists, last_index]
    cfg,            \* the loaded configuration
    now,            \* the wall clock's time of day
    pc,             \* where the process is (see RunningPcs, EndedPcs)
    df,             \* run: the queue load_contacts returned
    idx,            \* run: the loop's row index
    last_index,     \* run: the resume offset read from the checkpoint
    hourly_count,   \* self.hourly_count
    daily_count,    \* self.daily_count
    sent_records,   \* run: CONTATO of each record of the in-memory batch
    success,        \* run: outcome of the send of row idx
    runNo,          \* history: number of runs started
    sends,          \* history: recipients sent to successfully in this run, in order
    attempted,      \* history: row indices for which a send was attempted in this run
    send_calls,     \* history: calls of send_whatsapp_message made for row idx
    lastWrite,      \* history: this run's latest checkpoint write, <<row index the loop was at, last_index written>>
    firstProcessed, \* history: first row index this run did not skip (NoRow: none yet)
    sinceReset,     \* history: successful sends since the run started or the hourly counter was last zeroed
    flushes,        \* history: sent-log writes made by this run
    long_pauses,    \* history: long (block) pauses this run took between rows
    write_failed,   \* history: a checkpoint or sent-log write of this run raised
    prevSends,      \* history: recipients the previous run sent to successfully
    prevEnd,        \* history: how the previous run ended
    handled,        \* history: recipients whose send has ended (success or failure) in this run
    prevHandled,    \* history: recipients whose send ended in the previous run
    gate_out,       \* window gate harness: result of within_send_windows
    rt_in,          \* retry harness: [f: calls that raise before one returns, n: attempts]
    rt_out          \* retry harness: how the wrapper ended

vars == <<contacts, sent_log, ckpt_file, cfg, now, pc, df, idx, last_index,
          hourly_count, daily_count, sent_records, success, runNo, sends,
          attempted, send_calls, lastWrite, firstProcessed, sinceReset, flushes,
          long_pauses, write_failed, prevSends, prevEnd, handled, prevHandled,
          gate_out, rt_in, rt_out>>

fileVars == <<sent_log, ckpt_file>>
inputVars == <<contacts, cfg>>
memVars == <<df, idx, last_index, hourly_count, daily_count, sent_records, success>>
histVars == <<runNo, sends, attempted, send_calls, lastWrite, firstProcessed,
              sinceReset, flushes, long_pauses, write_failed, prevSends, prevEnd,
              handled, prevHandled>>
harnessVars == <<gate_out, rt_in, rt_out>>

RunningPcs == {"loop", "poll", "rate", "send", "ckpt", "flush"}
EndedPcs == {"exhausted", "dailycap", "abort", "crash", "crashgap"}

\* Times of day the clock is observed at.
NowPool == {<<10, 30, 0>>, <<23, 30, 0>>}

ConfigPool ==
    [send_windows : {DefaultWindows, WrapWindows},
     max_messages_per_hour : 1..MaxHourCap,
     max_messages_per_day : 1..MaxDayCap,
     randomize_order : BOOLEAN]

NoFile == [exists |-> FALSE, rows |-> << >>]
NoCkptFile == [exists |-> FALSE, last_index |-> NoCheckpoint]

NoRow == NoCheckpoint
NoWrite == << >>

NoIn == [f |-> 0, n |-> 0]
NoOut == [kind |-> "none", val |-> None, calls |-> 0]

\* ------------------------------------------------------ persistence
\* Mutant of save_checkpoint: the index after the one given is stored.
save_checkpoint_next(i) == [exists |-> TRUE, last_index |-> i + 1]

\* save_checkpoint(path, {"last_index": i})
save_checkpoint(i) == [exists |-> TRUE, last_index |-> i]

\* Mutant of load_checkpoint: 0 for "no checkpoint yet".
load_checkpoint_zero(f) == IF f.exists THEN f.last_index ELSE 0

\* load_checkpoint(path) followed by .get("last_index", -1)
load_checkpoint(f) == IF f.exists THEN f.last_index ELSE NoCheckpoint

\* Mutant of FilterContacts: the sent-log filter is applied to the raw cells,
\* before they are normalized.
FilterContacts_raw(store, log) ==
    LET present == dropna(store)
        fresh == IF log.exists
                 THEN SelectSeq(present, LAMBDA r : ~Contains(log.rows, r))
                 ELSE present
        normalized == [i \in 1..Len(fresh) |-> normalize_phone(fresh[i])]
    IN  dropna(normalized)

\* SafeSender.load_contacts up to the shuffle: drop empty cells, normalize,
\* drop what did not normalize, drop what the sent-log holds.
FilterContacts(store, log) ==
    LET present == dropna(store)
        normalized == [i \in 1..Len(present) |-> normalize_phone(present[i])]
        valid == dropna(normalized)
    IN  IF log.exists
        THEN SelectSeq(valid, LAMBDA r : ~Contains(log.rows, r))
        ELSE valid

\* SafeSender.load_contacts: the queues it can return.
load_contacts(store, log, c) ==
    IF c.randomize_order
    THEN Shuffles(FilterContacts(store, log))
    ELSE {FilterContacts(store, log)}

\* SafeSender.persist_sent: the sent-log file after the call.
persist_sent(log, records) ==
    IF records = << >> THEN log
    ELSE IF log.exists
         THEN [exists |-> TRUE, rows |-> drop_duplicates(log.rows \o records)]
         ELSE [exists |-> TRUE, rows |-> records]

\* ------------------------------------------------------------ actions
\* No process yet: nothing in memory, no history.
NotStarted ==
    /\ df = << >>
    /\ idx = 0
    /\ last_index = NoCheckpoint
    /\ hourly_count = 0
    /\ daily_count = 0
    /\ sent_records = << >>
    /\ success = FALSE
    /\ runNo = 0
    /\ sends = << >>
    /\ attempted = {}
    /\ send_calls = 0
    /\ lastWrite = NoWrite
    /\ firstProcessed = NoRow
    /\ sinceReset = 0
    /\ flushes = 0
    /\ long_pauses = 0
    /\ write_failed = FALSE
    /\ prevSends = {}
    /\ prevEnd = "none"
    /\ handled = {}
    /\ prevHandled = {}

HarnessIdle ==
    /\ gate_out = FALSE
    /\ rt_in = NoIn
    /\ rt_out = NoOut

\* A fresh installation: a contacts file and a configuration, no sent-log and
\* no checkpoint yet.
Init ==
    /\ contacts \in SeqsUpTo(ContactPool, MaxContacts)
    /\ cfg \in ConfigPool
    /\ now \in NowPool
    /\ sent_log = NoFile
    /\ ckpt_file = NoCkptFile
    /\ pc = "idle"
    /\ NotStarted
    /\ HarnessIdle

\* main(): SafeSender(driver, cfg) and the start of run(): counters zeroed, the
\* checkpoint loaded, the queue built.
StartRun ==
    /\ pc \in {"idle"} \cup EndedPcs
    /\ runNo < MaxRuns
    /\ runNo' = runNo + 1
    /\ prevEnd' = IF pc = "idle" THEN "none" ELSE pc
    /\ prevHandled' = handled
    /\ handled' = {}
    /\ prevSends' = Range(sends)
    /\ hourly_count' = 0
    /\ daily_count' = 0
    /\ last_index' = load_checkpoint(ckpt_file)
    /\ df' \in load_contacts(contacts, sent_log, cfg)
    /\ sent_records' = << >>
    /\ idx' = 0
    /\ success' = FALSE
    /\ sends' = << >>
    /\ attempted' = {}
    /\ send_calls' = 0
    /\ lastWrite' = NoWrite
    /\ firstProcessed' = NoRow
    /\ sinceReset' = 0
    /\ flushes' = 0
    /\ long_pauses' = 0
    /\ write_failed' = FALSE
    /\ pc' = "loop"
    /\ UNCHANGED <<fileVars, inputVars, now, harnessVars>>

\* Mutant of AlreadyProcessed: the row at last_index is not skipped.
AlreadyProcessed_strict(i, last) == i < last

\* if idx <= last_index
AlreadyProcessed(i, last) == i <= last

\* for idx, row in ...: if idx <= last_index: continue
Skip ==
    /\ pc = "loop"
    /\ idx < Len(df)
    /\ AlreadyProcessed(idx, last_index)
    /\ idx' = idx + 1
    /\ UNCHANGED <<fileVars, inputVars, now, pc, df, last_index, hourly_count,
                   daily_count, sent_records, success, histVars, harnessVars>>

\* can_send_now() of a row that is not skipped
WindowCheck ==
    /\ pc = "loop"
    /\ idx < Len(df)
    /\ ~AlreadyProcessed(idx, last_index)
    /\ pc' = IF within_send_windows(cfg, now) THEN "rate" ELSE "poll"
    /\ send_calls' = 0
    /\ success' = FALSE
    /\ firstProcessed' = IF firstProcessed = NoRow THEN idx ELSE firstProcessed
    /\ UNCHANGED <<fileVars, inputVars, now, df, idx, last_index, hourly_count,
                   daily_count, sent_records, runNo, sends, attempted, lastWrite,
                   sinceReset, flushes, long_pauses, write_failed, prevSends,
                   prevEnd, handled, prevHandled,
                   harnessVars>>

\* while not within_send_windows: save_checkpoint(idx - 1); time.sleep(60)
PollWait ==
    /\ pc = "poll"
    /\ ~within_send_windows(cfg, now)
    /\ ckpt_file' = save_checkpoint(idx - 1)
    /\ lastWrite' = <<idx, idx - 1>>
    /\ now' \in NowPool
    /\ UNCHANGED <<sent_log, inputVars, pc, memVars, runNo, sends, attempted,
                   send_calls, firstProcessed, sinceReset, flushes, long_pauses,
                   write_failed, prevSends, prevEnd, handled, prevHandled,
                   harnessVars>>

\* the same write failing with an I/O error: the exception leaves run()
PollSaveFails ==
    /\ pc = "poll"
    /\ ~within_send_windows(cfg, now)
    /\ pc' = "abort"
    /\ write_failed' = TRUE
    /\ UNCHANGED <<fileVars, inputVars, now, memVars, runNo, sends, attempted,
                   send_calls, lastWrite, firstProcessed, sinceReset, flushes,
                   long_pauses, prevSends, prevEnd, handled, prevHandled,
                   harnessVars>>

\* the while loop's condition turning false
PollResume ==
    /\ pc = "poll"
    /\ within_send_windows(cfg, now)
    /\ pc' = "rate"
    /\ UNCHANGED <<fileVars, inputVars, now, memVars, histVars, harnessVars>>

\* Mutant of HourlyLimitReached: > for >=.
HourlyLimitReached_gt == hourly_count > cfg.max_messages_per_hour

\* if self.hourly_count >= cfg.get("max_messages_per_hour", 60)
HourlyLimitReached == hourly_count >= cfg.max_messages_per_hour

\* Mutant of DailyLimitReached: > for >=.
DailyLimitReached_gt == daily_count > cfg.max_messages_per_day

\* if self.daily_count >= cfg.get("max_messages_per_day", 300)
DailyLimitReached == daily_count >= cfg.max_messages_per_day

\* The two rate checks of a row. When the hourly limit is reached:
\* human_sleep(600, 600, cfg), during which the clock moves, then
\* self.hourly_count = 0. When the daily limit is reached: break.
RateLimit ==
    /\ pc = "rate"
    /\ IF HourlyLimitReached
       THEN now' \in NowPool /\ hourly_count' = 0 /\ sinceReset' = 0
       ELSE now' = now /\ hourly_count' = hourly_count /\ sinceReset' = sinceReset
    /\ pc' = IF DailyLimitReached THEN "flush" ELSE "send"
    /\ UNCHANGED <<fileVars, inputVars, df, idx, last_index, daily_count,
                   sent_records, success, runNo, sends, attempted, send_calls,
                   lastWrite, firstProcessed, flushes, long_pauses, write_failed,
                   prevSends, prevEnd, handled, prevHandled,
                   harnessVars>>

\* Mutant of update_counters: = for +=.
update_counters_assign(count, n) == n

\* update_counters(n): the new value of a counter
update_counters(count, n) == count + n

\* Mutant of AppendIfSent: the record is appended whatever the outcome.
AppendIfSent_always(records, contato, ok) == Append(records, contato)

\* if success: sent_records.append({..., "CONTATO": contato, ...})
AppendIfSent(records, contato, ok) ==
    IF ok THEN Append(records, contato) ELSE records

\* success = self.safe_send_once(contato, mensagem), False on an exception;
\* on success the record is appended and the counters are updated.
Send ==
    /\ pc = "send"
    /\ \E driver \in [1..SendAttempts -> BOOLEAN] :
          LET r == safe_send_once(driver)
              ok == r.kind = "return" /\ r.val
              contato == df[idx + 1]
          IN  /\ success' = ok
              /\ send_calls' = r.calls
              /\ sent_records' = AppendIfSent(sent_records, contato, ok)
              /\ hourly_count' = IF ok THEN update_counters(hourly_count, 1) ELSE hourly_count
              /\ daily_count' = IF ok THEN update_counters(daily_count, 1) ELSE daily_count
              /\ sends' = IF ok THEN Append(sends, contato) ELSE sends
              /\ sinceReset' = IF ok THEN sinceReset + 1 ELSE sinceReset
    /\ attempted' = attempted \cup {idx}
    /\ handled' = handled \cup {df[idx + 1]}
    /\ pc' = "ckpt"
    /\ UNCHANGED <<fileVars, inputVars, now, df, idx, last_index, runNo,
                   lastWrite, firstProcessed, flushes, long_pauses, write_failed,
                   prevSends, prevEnd, prevHandled, harnessVars>>

\* The pause run() takes after the checkpoint of row i of a queue of n rows:
\* human_sleep(min_interval, max_interval) when a row follows, none after the
\* last row. No other sleep follows the checkpoint: run() reads neither
\* block_size nor block_pause_seconds.
PauseAfterCheckpoint(i, n) == IF i < n - 1 THEN "interval" ELSE "none"

\* save_checkpoint(self.checkpoint_file, {"last_index": idx}), then
\* if idx < len(df) - 1: human_sleep(min_interval, max_interval), during which
\* the clock moves, and on to the next row.
SaveCheckpoint ==
    /\ pc = "ckpt"
    /\ ckpt_file' = save_checkpoint(idx)
    /\ lastWrite' = <<idx, idx>>
    /\ IF PauseAfterCheckpoint(idx, Len(df)) = "interval"
       THEN now' \in NowPool
       ELSE now' = now
    /\ long_pauses' = IF PauseAfterCheckpoint(idx, Len(df)) = "block"
                      THEN long_pauses + 1
                      ELSE long_pauses
    /\ idx' = idx + 1
    /\ pc' = "loop"
    /\ UNCHANGED <<sent_log, inputVars, df, last_index, hourly_count, daily_count,
                   sent_records, success, runNo, sends, attempted, send_calls,
                   firstProcessed, sinceReset, flushes, write_failed, prevSends,
                   prevEnd, handled, prevHandled,
                   harnessVars>>

\* Mutant of SaveCheckpointFails: the error of the write is caught and the loop
\* goes on with the next row.
SaveCheckpointFails_swallowed ==
    /\ pc = "ckpt"
    /\ write_failed' = TRUE
    /\ idx' = idx + 1
    /\ pc' = "loop"
    /\ UNCHANGED <<fileVars, inputVars, now, df, last_index, hourly_count,
                   daily_count, sent_records, success, runNo, sends, attempted,
                   send_calls, lastWrite, firstProcessed, sinceReset, flushes,
                   long_pauses, prevSends, prevEnd, handled, prevHandled,
                   harnessVars>>

\* the same write failing with an I/O error: the exception leaves run()
SaveCheckpointFails ==
    /\ pc = "ckpt"
    /\ pc' = "abort"
    /\ write_failed' = TRUE
    /\ UNCHANGED <<fileVars, inputVars, now, memVars, runNo, sends, attempted,
                   send_calls, lastWrite, firstProcessed, sinceReset, flushes,
                   long_pauses, prevSends, prevEnd, handled, prevHandled,
                   harnessVars>>

\* the for loop running out of rows
LoopEnd ==
    /\ pc = "loop"
    /\ idx >= Len(df)
    /\ pc' = "flush"
    /\ UNCHANGED <<fileVars, inputVars, now, memVars, histVars, harnessVars>>

\* How a run that left the loop ends: the break leaves it at a row, the
\* exhausted iterator past the last one.
EndKind == IF idx < Len(df) THEN "dailycap" ELSE "exhausted"

\* if sent_records: self.persist_sent(sent_records); run() returns
Flush ==
    /\ pc = "flush"
    /\ sent_log' = persist_sent(sent_log, sent_records)
    /\ flushes' = IF sent_records = << >> THEN flushes ELSE flushes + 1
    /\ pc' = EndKind
    /\ UNCHANGED <<ckpt_file, inputVars, now, memVars, runNo, sends, attempted,
                   send_calls, lastWrite, firstProcessed, sinceReset, long_pauses,
                   write_failed, prevSends, prevEnd, handled, prevHandled,
                   harnessVars>>

\* persist_sent failing with an I/O error: the exception leaves run()
FlushFails ==
    /\ pc = "flush"
    /\ sent_records /= << >>
    /\ pc' = "abort"
    /\ write_failed' = TRUE
    /\ UNCHANGED <<fileVars, inputVars, now, memVars, runNo, sends, attempted,
                   send_calls, lastWrite, firstProcessed, sinceReset, flushes,
                   long_pauses, prevSends, prevEnd, handled, prevHandled,
                   harnessVars>>

\* The process dying (kill, power loss) anywhere in run(): the files stay as
\* they are and the memory of the process is gone. "crashgap" when it dies after
\* a successful send and before the checkpoint write that follows.
Crash ==
    /\ pc \in RunningPcs
    /\ pc' = IF pc = "ckpt" /\ success THEN "crashgap" ELSE "crash"
    /\ df' = << >>
    /\ idx' = 0
    /\ last_index' = NoCheckpoint
    /\ hourly_count' = 0
    /\ daily_count' = 0
    /\ sent_records' = << >>
    /\ success' = FALSE
    /\ UNCHANGED <<fileVars, inputVars, now, histVars, harnessVars>>

Next ==
    \/ StartRun
    \/ Skip
    \/ WindowCheck
    \/ PollWait
    \/ PollSaveFails
    \/ PollResume
    \/ RateLimit
    \/ Send
    \/ SaveCheckpoint
    \/ SaveCheckpointFails
    \/ LoopEnd
    \/ Flush
    \/ FlushFails
    \/ Crash

Spec == Init /\ [][Next]_vars

\* ------------------------------------------- harness: queue building
TokenPool == {normalize_phone(RawA1), normalize_phone(RawB)}

LogPool ==
    {NoFile} \cup {[exists |-> TRUE, rows |-> r] : r \in SeqsUpTo(TokenPool, MaxLogRows)}

InitQueue ==
    /\ contacts \in SeqsUpTo(RawPool, MaxContacts)
    /\ sent_log \in LogPool
    /\ cfg \in {c \in ConfigPool : /\ c.send_windows = DefaultWindows
                                   /\ c.max_messages_per_hour = 1
                                   /\ c.max_messages_per_day = 1}
    /\ now \in {t \in NowPool : t[1] = 10}
    /\ ckpt_file = NoCkptFile
    /\ pc = "build"
    /\ NotStarted
    /\ HarnessIdle

\* df = self.load_contacts()
BuildQueue ==
    /\ pc = "build"
    /\ df' \in load_contacts(contacts, sent_log, cfg)
    /\ pc' = "built"
    /\ UNCHANGED <<fileVars, inputVars, now, idx, last_index, hourly_count,
                   daily_count, sent_records, success, histVars, harnessVars>>

NextQueue == BuildQueue

SpecQueue == InitQueue /\ [][NextQueue]_vars

\* --------------------------------------------- harness: window gate
TimeStrs == {T0600, T0900, T1200, T2200}
WindowPool == {<<a, b>> : a \in TimeStrs, b \in TimeStrs}
GateTimes == {<<5, 0, 0>>, <<9, 0, 0>>, <<12, 0, 0>>, <<12, 0, 30>>, <<23, 30, 0>>}

InitGate ==
    /\ contacts = << >>
    /\ sent_log = NoFile
    /\ ckpt_file = NoCkptFile
    /\ cfg \in [send_windows : SeqsUpTo(WindowPool, MaxWindows),
                max_messages_per_hour : {1},
                max_messages_per_day : {1},
                randomize_order : {FALSE}]
    /\ now \in GateTimes
    /\ pc = "gate"
    /\ NotStarted
    /\ HarnessIdle

\* within_send_windows(cfg, now)
ApplyGate ==
    /\ pc = "gate"
    /\ gate_out' = within_send_windows(cfg, now)
    /\ pc' = "gate_done"
    /\ UNCHANGED <<fileVars, inputVars, now, memVars, histVars, rt_in, rt_out>>

NextGate == ApplyGate

SpecGate == InitGate /\ [][NextGate]_vars

\* ------------------------------------------- harness: retry decorator
\* A wrapped function whose first f calls raise (the k-th raises exception k)
\* and whose later calls return "ok".
FailThenSucceed(f, n) ==
    [k \in 1..n |-> IF k <= f THEN Raise(k) ELSE Return("ok")]

InitRetry ==
    /\ contacts = << >>
    /\ sent_log = NoFile
    /\ ckpt_file = NoCkptFile
    /\ cfg \in {c \in ConfigPool : /\ c.send_windows = DefaultWindows
                                   /\ c.max_messages_per_hour = 1
                                   /\ c.max_messages_per_day = 1
                                   /\ ~c.randomize_order}
    /\ now \in {t \in NowPool : t[1] = 10}
    /\ pc = "retry"
    /\ NotStarted
    /\ gate_out = FALSE
    /\ rt_in \in [f : 0..MaxFail, n : 1..MaxAttempts]
    /\ rt_out = NoOut

\* one call of a function decorated with retry_with_backoff(attempts=n)
ApplyRetry ==
    /\ pc = "retry"
    /\ rt_out' = retry_with_backoff(rt_in.n, FailThenSucceed(rt_in.f, rt_in.n))
    /\ pc' = "retry_done"
    /\ UNCHANGED <<fileVars, inputVars, now, memVars, histVars, gate_out, rt_in>>

NextRetry == ApplyRetry

SpecRetry == InitRetry /\ [][NextRetry]_vars

\* ------------------------------- one run under a clock that advances
\* "send_windows": [] in config.json: no window at all.
NoWindows == << >>

\* An installation without a sent-log: fresh, or left by a run that stopped
\* after its first row without a successful send.
InitLive ==
    /\ contacts \in SeqsUpTo(ContactPool, MaxContacts)
    /\ cfg \in [send_windows : {DefaultWindows, NoWindows},
                max_messages_per_hour : 1..MaxHourCap,
                max_messages_per_day : 1..MaxDayCap,
                randomize_order : BOOLEAN]
    /\ now \in NowPool
    /\ sent_log = NoFile
    /\ ckpt_file \in {NoCkptFile, save_checkpoint(0)}
    /\ pc = "idle"
    /\ NotStarted
    /\ HarnessIdle

\* main() run once, the process not being killed.
StartFirstRun == runNo = 0 /\ StartRun

NextLive ==
    \/ StartFirstRun
    \/ Skip
    \/ WindowCheck
    \/ PollWait
    \/ PollSaveFails
    \/ PollResume
    \/ RateLimit
    \/ Send
    \/ SaveCheckpoint
    \/ SaveCheckpointFails
    \/ LoopEnd
    \/ Flush
    \/ FlushFails

\* The process keeps executing, and time advances: a loop that keeps polling
\* the clock every 60 s sees every time of day again and again.
FairLive ==
    /\ WF_vars(NextLive)
    /\ \A t \in NowPool : SF_vars(PollWait /\ now' = t)

SpecLive == InitLive /\ [][NextLive]_vars /\ FairLive

\* ================================================================ claims
\* A run that is executing or has returned from (or was thrown out of) run():
\* the process still holds its memory.
ProcessPcs == RunningPcs \cup {"exhausted", "dailycap", "abort"}

InLedger(r) == sent_log.exists /\ Contains(sent_log.rows, r)

\* C1: within one run no normalized recipient id is sent to successfully more
\* than once, whatever the contacts file holds and however the sends end.
C1_AtMostOncePerRun ==
    \A r \in Range(sends) : Occurrences(sends, r) = 1

\* C2: after a crash that is not between a successful send and its checkpoint
\* write, the next run sends to no recipient the crashed run had sent to.
\* Stated for contacts files in which no recipient occurs twice: a case of the
\* claim that the repeated sends of C1 do not reach.
NoRepeatedRecipient ==
    LET q == FilterContacts(contacts, NoFile)
    IN  \A r \in Range(q) : Occurrences(q, r) = 1

C2_CrashResumeNoDuplicate ==
    (prevEnd = "crash" /\ NoRepeatedRecipient)
        => Range(sends) \cap prevSends = {}

\* C3 as claimed: a run that follows a run that ended with the queue exhausted
\* or with the daily cap reached makes no send attempt.
C3_SecondRunIdle ==
    prevEnd \in {"exhausted", "dailycap"} => attempted = {}

\* C3 as amended: a run that follows a run that ended with the queue exhausted
\* makes no send attempt.
C3_SecondRunIdleAfterExhausted ==
    prevEnd = "exhausted" => attempted = {}

\* The second run went through a non-empty queue (the recipients the first run
\* failed on) after a first run that sent something, and ended without an attempt.
C3_Witness ==
    /\ prevEnd = "exhausted"
    /\ pc = "exhausted"
    /\ prevSends /= {}
    /\ Len(df) > 0
    /\ attempted = {}

\* What C4 says apart from the checkpoint writes: the offset is the stored
\* last_index (-1 without a checkpoint), no send is attempted at or below it, and
\* the first row that is not skipped is the one after it.
ResumeOffsetRespected ==
    /\ lastWrite = NoWrite =>
          last_index = (IF ckpt_file.exists THEN ckpt_file.last_index ELSE -1)
    /\ \A i \in attempted : i > last_index
    /\ firstProcessed /= NoRow => firstProcessed = last_index + 1
    /\ pc \in {"poll", "rate", "send", "ckpt"} => idx > last_index /\ firstProcessed /= NoRow
    /\ (pc = "loop" /\ idx > last_index + 1) => firstProcessed /= NoRow

\* C4 as claimed: with last_index = k the run makes no send attempt and writes no
\* checkpoint for any index in 0..k, and the first index it processes is k+1.
C4_NoCheckpointUpToK ==
    pc \in ProcessPcs =>
        /\ ResumeOffsetRespected
        /\ lastWrite /= NoWrite => lastWrite[2] \notin 0..last_index

\* C4 as amended: with last_index = k the run makes no send attempt for any
\* index in 0..k, writes a checkpoint only while the loop is at an index above k
\* and never one below k (the window wait at index k+1 re-writes last_index = k),
\* and the first index it processes is k+1; without a checkpoint k is -1.
C4_ResumeFromCheckpoint ==
    pc \in ProcessPcs =>
        /\ ResumeOffsetRespected
        /\ lastWrite /= NoWrite => lastWrite[1] > last_index /\ lastWrite[2] >= last_index

\* A resumed run about to send its first row, k+1, after a window wait there.
C4_Witness ==
    /\ pc = "send"
    /\ last_index >= 0
    /\ idx = last_index + 1
    /\ firstProcessed = idx
    /\ lastWrite = <<idx, idx - 1>>

\* C5: the queue load_contacts returns holds no recipient that the sent-log
\* holds when the queue is built.
C5_QueueLedgerDisjoint ==
    pc = "built" => \A r \in Range(df) : ~InLedger(r)

\* A queue that kept some contacts while the sent-log removed others.
C5_Witness ==
    /\ pc = "built"
    /\ df /= << >>
    /\ \E i \in 1..Len(contacts) : InLedger(normalize_phone(contacts[i]))

\* C6: however a run ends (queue exhausted, daily cap, abort on a fatal error),
\* the batch was flushed exactly once and every recipient it sent to is in the
\* sent-log.
C6_FlushedAtRunEnd ==
    pc \in {"exhausted", "dailycap", "abort"} =>
        /\ \A r \in Range(sends) : InLedger(r)
        /\ sends /= << >> => flushes = 1
        /\ flushes <= 1

\* C7: hourly_count counts the successful sends since the last reset, never
\* exceeds max_messages_per_hour, and no send is attempted while it has reached it.
C7_HourlyCap ==
    pc \in ProcessPcs =>
        /\ hourly_count = sinceReset
        /\ sinceReset <= cfg.max_messages_per_hour
        /\ pc = "send" => sinceReset < cfg.max_messages_per_hour

\* A send attempt after the cooldown zeroed the hourly counter.
C7_Witness ==
    /\ pc = "send"
    /\ hourly_count = 0
    /\ daily_count = cfg.max_messages_per_hour

\* C8: a run never sends more than max_messages_per_day times, attempts no send
\* once it has sent that many, and the daily counter is the number of successful
\* sends of the run (the hourly cooldown does not reset it).
C8_DailyCap ==
    pc \in ProcessPcs =>
        /\ daily_count = Len(sends)
        /\ Len(sends) <= cfg.max_messages_per_day
        /\ pc = "send" => Len(sends) < cfg.max_messages_per_day

\* A run ended by the daily cap, with rows left, after a cooldown had zeroed the
\* hourly counter.
C8_Witness ==
    /\ pc = "dailycap"
    /\ idx < Len(df)
    /\ daily_count = cfg.max_messages_per_day
    /\ hourly_count < daily_count

Min(a, b) == IF a <= b THEN a ELSE b

\* C9: a function that raises on its first f calls and then returns is called
\* min(f+1, n) times; the wrapper returns its result when f < n and otherwise
\* raises the exception of the last call.
C9_RetryCalls ==
    pc = "retry_done" =>
        /\ rt_out.calls = Min(rt_in.f + 1, rt_in.n)
        /\ rt_in.f < rt_in.n => rt_out.kind = "return" /\ rt_out.val = "ok"
        /\ rt_in.f >= rt_in.n => rt_out.kind = "raise" /\ rt_out.val = rt_in.n

\* Two failures, then success, with attempts = 3: three calls and the result.
C9_Witness ==
    /\ pc = "retry_done"
    /\ rt_in = [f |-> 2, n |-> 3]
    /\ rt_out = [kind |-> "return", val |-> "ok", calls |-> 3]

\* The gate as C10 states it: a window with start <= end matches inside it, a
\* window with start > end wraps past midnight.
WindowMatches(start, end, t) ==
    IF TimeLE(start, end)
    THEN TimeLE(start, t) /\ TimeLE(t, end)
    ELSE TimeLE(start, t) \/ TimeLE(t, end)

\* C10: within_send_windows is true iff some configured window matches, windows
\* with start > end wrapping past midnight.
C10_GateWrapsMidnight ==
    pc = "gate_done" =>
        gate_out = (\E i \in 1..Len(cfg.send_windows) :
                       WindowMatches(strptime(cfg.send_windows[i][1]),
                                     strptime(cfg.send_windows[i][2]), now))

\* Rows this run has checkpointed, when it is about to process row idx, after
\* which a block of bs rows is complete.
BlockBoundaries(bs) == {i \in firstProcessed..(idx - 1) : (i + 1) % bs = 0}

\* C11: when the loop is about to process a row, it has taken exactly one long
\* pause for every row i it checkpointed before with (i+1) mod block_size = 0,
\* and no other long pause; stated for every block_size up to MaxBlockSize.
C11_BlockPauseCadence ==
    \A bs \in 1..MaxBlockSize :
        (pc \in {"poll", "rate", "send"} /\ firstProcessed /= NoRow)
            => long_pauses = Cardinality(BlockBoundaries(bs))

\* C12: every execution of run() ends, with the queue exhausted, with the daily
\* cap reached or aborted by a persistence error, whatever send_windows holds
\* and however the sends go, as long as time advances.
C12_RunTerminates ==
    (pc \in RunningPcs) ~> (pc \in {"exhausted", "dailycap", "abort"})

\* The digits of a raw cell, in order.
DigitsOf(raw) == SelectSeq(raw, LAMBDA ch : ch \in Digits)

\* A raw cell the filter must exclude: missing, or fewer than 10 digits.
TooShort(raw) == raw = NaN \/ Len(DigitsOf(raw)) < 10

\* C13: every recipient id of the built queue is a string of at least 10
\* digits, and the queue has no row for a raw contact that is missing or has
\* fewer than 10 digits: each of its rows comes from another contact.
C13_NormalizationFilter ==
    pc = "built" =>
        /\ \A r \in Range(df) :
               Len(r) >= 10 /\ \A k \in 1..Len(r) : r[k] \in Digits
        /\ \A i \in 1..Len(contacts) :
               TooShort(contacts[i]) => ~Contains(df, DigitsOf(contacts[i]))
        /\ Len(df) <= Cardinality({i \in 1..Len(contacts) : ~TooShort(contacts[i])})

\* A contacts file with an empty cell, a 9-digit number and a formatted 11-digit
\* number: only the last one is queued, as its digits.
C13_Witness ==
    /\ pc = "built"
    /\ contacts = <<NaN, RawShort, RawA2>>
    /\ df = <<RawA1>>

\* C14: a send whose channel call raised or returned false is called again
\* until a call succeeds or the attempt limit is reached: a recipient whose
\* outcome is failure has had all SendAttempts calls.
C14_FailedSendsRetried ==
    (pc = "ckpt" /\ ~success) => send_calls = SendAttempts

\* Row j of the queue is terminally handled: skipped by resume, or its send
\* has ended in success or failure.
TerminallyHandled(j) == j <= last_index \/ j \in attempted

\* C15: every queue index up to the persisted last_index is terminally handled;
\* every row whose send ended is covered by the checkpoint as soon as the loop
\* has left it (and is not while its outcome is only just decided); and after a
\* daily-cap ending the checkpoint does not cover the row that was not attempted.
C15_CheckpointDecided ==
    pc \in ProcessPcs =>
        /\ ckpt_file.exists =>
               \A j \in 0..Min(ckpt_file.last_index, Len(df) - 1) : TerminallyHandled(j)
        /\ pc = "ckpt" => (ckpt_file.exists => ckpt_file.last_index < idx)
        /\ pc \notin {"ckpt", "abort"} =>
               \A j \in attempted : ckpt_file.exists /\ j <= ckpt_file.last_index
        /\ pc = "dailycap" =>
               /\ idx \notin attempted
               /\ ckpt_file.exists => ckpt_file.last_index < idx

\* A resumed run (row 0 skipped) that sent to row 1, checkpointed it and was
\* ended by the daily cap at row 2.
C15_Witness ==
    /\ pc = "dailycap"
    /\ last_index = 0
    /\ attempted = {1}
    /\ idx = 2
    /\ ckpt_file = [exists |-> TRUE, last_index |-> 1]

\* C16: the persisted last_index never decreases (a missing checkpoint file
\* reads as -1): not by the writes of idx - 1 of a window wait, not by the
\* writes of a run resumed from a stored last_index.
C16_CheckpointMonotone ==
    [][load_checkpoint(ckpt_file') >= load_checkpoint(ckpt_file)]_vars

\* A resumed run waiting for the window at its first row: the wait has
\* re-written the stored last_index.
C16_Witness ==
    /\ pc = "poll"
    /\ last_index >= 0
    /\ idx = last_index + 1
    /\ lastWrite = <<idx, last_index>>
    /\ ckpt_file = [exists |-> TRUE, last_index |-> last_index]

\* Some configured window matches at time t, as the gate is specified
\* (a window with start > end wraps past midnight).
SomeWindowMatches(c, t) ==
    \E i \in 1..Len(c.send_windows) :
        WindowMatches(strptime(c.send_windows[i][1]), strptime(c.send_windows[i][2]), t)

\* C17: a send attempt is started only at a time when some configured send
\* window matches, also when the hourly cooldown was taken after the window
\* check of the row.
C17_SendsInsideWindow ==
    pc = "send" => SomeWindowMatches(cfg, now)

\* C18: once a checkpoint write or the sent-log write of a run has raised, the
\* run is aborted, and it makes no send attempt and no write after that.
C18_PersistenceFailureFatal ==
    [][/\ write_failed' => pc' = "abort"
       /\ (write_failed /\ runNo' = runNo) =>
              UNCHANGED <<attempted, sends, send_calls, sent_records, fileVars>>]_vars

\* A run aborted by a failed write after a send, with rows left in the queue.
C18_Witness ==
    /\ pc = "abort"
    /\ write_failed
    /\ attempted = {0}
    /\ idx = 0
    /\ Len(df) > 1

\* C19: a send that ends in failure adds no record to the batch and leaves both
\* rate counters as they were, and the run goes on: unless the process is
\* killed or the checkpoint write itself raises, the checkpoint is advanced to
\* the row's index and the loop proceeds to the next index.
C19_FailureIsLocal ==
    [][/\ (pc = "send" /\ pc' /= "crash") => pc' = "ckpt"
       /\ (pc = "send" /\ pc' = "ckpt" /\ ~success') =>
              UNCHANGED <<sent_records, hourly_count, daily_count>>
       /\ (pc = "ckpt" /\ ~success /\ ~write_failed' /\ pc' \notin {"crash", "crashgap"}) =>
              /\ ckpt_file' = [exists |-> TRUE, last_index |-> idx]
              /\ idx' = idx + 1
              /\ pc' = "loop"
              /\ UNCHANGED <<sent_records, hourly_count, daily_count>>]_vars

\* The send of row 0 failed; the row is checkpointed, nothing was recorded or
\* counted, and the loop is at row 1.
C19_Witness ==
    /\ pc = "loop"
    /\ attempted = {0}
    /\ ~success
    /\ idx = 1
    /\ Len(df) > 1
    /\ ckpt_file = [exists |-> TRUE, last_index |-> 0]
    /\ sent_records = << >>
    /\ hourly_count = 0
    /\ daily_count = 0

\* C20: after the sent-log write of a run, every recipient id of the batch is
\* in the sent-log exactly once and every id the sent-log held before is still
\* there exactly once, whether or not the file existed and also when the batch
\* holds an id twice.
C20_LedgerOneRecordPerRecipient ==
    [][(pc = "flush" /\ pc' \in {"exhausted", "dailycap"} /\ sent_records /= << >>) =>
          /\ sent_log'.exists
          /\ \A r \in Range(sent_records) : Occurrences(sent_log'.rows, r) = 1
          /\ \A r \in Range(sent_log.rows) : Occurrences(sent_log'.rows, r) = 1]_vars

\* The previous run did not go through its whole queue: it was killed, aborted
\* or ended by the daily cap, and this run resumes it.
ResumesInterruptedRun == prevEnd \in {"crash", "crashgap", "abort", "dailycap"}

\* C21: when a run ends with its queue exhausted, every recipient of the queue
\* it built had a send attempt in this run, or had one in the interrupted run
\* this run resumes.
C21_NoSilentSkip ==
    pc = "exhausted" =>
        \A i \in 1..Len(df) :
            \/ df[i] \in handled
            \/ ResumesInterruptedRun /\ df[i] \in prevHandled

\* C22: in every state of a run, daily_count is the number of records of the
\* in-memory batch, which is the number of successful sends of the run so far;
\* hourly_count is at most daily_count; and the batch holds a record for a
\* recipient only if a send to that recipient succeeded in this run.
C22_CounterBatchConsistency ==
    pc \in ProcessPcs =>
        /\ daily_count = Len(sent_records)
        /\ Len(sent_records) = Len(sends)
        /\ hourly_count <= daily_count
        /\ \A r \in Range(sent_records) : r \in Range(sends)

\* A run of three rows ended with one failed and two successful sends, the
\* hourly counter having been zeroed between the two.
C22_Witness ==
    /\ pc = "exhausted"
    /\ attempted = {0, 1, 2}
    /\ Len(sent_records) = 2
    /\ daily_count = 2
    /\ hourly_count = 1
====
